---- MODULE Spec2Model ----
(***************************************************************************)
(* A model of mhealthx's glue code: the feature-extraction drivers of      *)
(* extract.py and extractors.py, and the Synapse table functions of        *)
(* synapse_io.py.                                                          *)
(*                                                                         *)
(* Strings are sequences of one-character strings, so that                 *)
(* os.path.basename, str.format and ''.join are computed, not assumed.     *)
(* A pandas Series / one-row DataFrame is a record with its kind and the   *)
(* sequence of its <<label, value>> fields.  A table file on disk is the   *)
(* sequence of the rows written to it.                                     *)
(***************************************************************************)
EXTENDS Integers, Sequences, FiniteSets, TLC

(* ------------------------------ bounds -------------------------------- *)

\* number of run_openSMILE / run_pyGait / openSMILE calls in one behaviour
MaxCalls == 2

\* number of rows of a Synapse table
MaxRows == 2

\* number of files given to files_to_synapse_table
MaxFiles == 2

\* number of tables given to concatenate_tables_to_synapse_table
MaxTables == 2

(* ------------------------------ strings ------------------------------- *)

\* Python's None, for string-valued results (no path is a one-element
\* sequence holding a four-letter element: paths hold single characters)
None == <<"None">>

\* Python's None, for row-valued results
NoneRow == [kind |-> "None", fields |-> <<>>]

CSV == <<".", "c", "s", "v">>

Max(S) == CHOOSE m \in S : \A n \in S : n <= m

\* os.path.basename(p): what follows the last "/" of p
basename(p) ==
    LET slashes == {i \in 1..Len(p) : p[i] = "/"}
    IN  IF slashes = {} THEN p ELSE SubSeq(p, Max(slashes) + 1, Len(p))

\* ''.join([audio_file, '.csv'])
OutputCsv(audio_file) == audio_file \o CSV

\* mhealthx.utilities.run_command returns (cline, args, arg1, argn) with
\* argn as it was passed
run_command_argn(argn) == argn

\* '{0}_{1}'.format(table_stem, os.path.basename(argn))
RowTable_openSMILE(table_stem, argn) == table_stem \o <<"_">> \o basename(argn)

\* '{0}_{1}.csv'.format(table_stem, os.path.basename(file_path))
RowTable_pyGait(table_stem, file_path) ==
    table_stem \o <<"_">> \o basename(file_path) \o CSV

\* table_stem + '.csv'
SharedTable(table_stem) == table_stem \o CSV

(* ------------------------------- inputs ------------------------------- *)

\* full paths of input files: two share a base name in different directories
InputFiles ==
    { <<"/", "a", "/", "x">>, <<"/", "b", "/", "x">>, <<"/", "a", "/", "y">> }

\* table_stem: a path prefix
TableStems == { <<".", "/", "t">> }

\* the feature_table argument of extractors.openSMILE: a full path, or empty
FeatureTables == { <<>>, <<"f", ".", "c", "s", "v">> }

Series(f) == [kind |-> "Series", fields |-> f]
DataFrame(f) == [kind |-> "DataFrame", fields |-> f]

\* the row argument: not a Series, an empty Series, a Series of two fields
Rows ==
    { NoneRow, Series(<<>>), Series(<< <<"id", "r1">>, <<"name", "n1">> >>) }

\* what pd.read_csv(argn, sep=";") yields for the openSMILE output
OpenSmileRows ==
    { DataFrame(<< <<"name", "u">>, <<"F0", "v1">> >>),
      DataFrame(<< <<"name", "u">>, <<"F0", "v2">> >>) }

\* a row argument that is the path of a csv file: the fields are in the file
RowFile == [kind |-> "str", fields |-> <<>>]

\* the row argument of extractors.openSMILE: as above, or a csv file
ExRows == Rows \cup { RowFile }

\* the rows get_convert_audio gives back: the Series it read or was given
FetchedRows ==
    { Series(<< <<"id", "r1">>, <<"name", "n1">> >>),
      Series(<< <<"id", "r9">>, <<"name", "n9">>, <<"extra", "e">> >>) }

\* what arff_to_csv yields for the openSMILE output: a Series (the comment
\* of step 4) or a one-row DataFrame (the docstring's step 4)
ArffRows ==
    { Series(<< <<"name", "u">>, <<"F0", "v1">> >>),
      DataFrame(<< <<"name", "u">>, <<"F0", "v1">> >>) }

\* the columns of run_pyGait's row_data
GaitColumns ==
    << "number_of_steps", "cadence", "velocity", "avg_step_length",
       "avg_stride_length", "avg_step_duration", "sd_step_durations",
       "avg_number_of_strides", "avg_stride_duration", "sd_stride_durations",
       "step_regularity", "stride_regularity", "symmetry", "RMS" >>

\* the outcome of heel_strikes / gait / root_mean_square, as one value: the
\* functions compute it from the file, and no step of run_pyGait reads it
GaitValues == { "g1" }

GaitRow(g) == DataFrame([i \in 1..Len(GaitColumns) |-> <<GaitColumns[i], g>>])

(* --------------------------- pandas tables ---------------------------- *)

\* a DataFrame of several rows: its index labels, its column labels, and
\* its values, row by row
Frame(index, columns, values) ==
    [index |-> index, columns |-> columns, values |-> values]

EmptyFrame == Frame(<<>>, <<>>, <<>>)

\* a missing value of a DataFrame
NaN == <<"NaN">>

\* the labels of a sequence that are not in another, in order
RECURSIVE Without(_, _)
Without(labels, seen) ==
    IF labels = <<>> THEN <<>>
    ELSE IF \E k \in 1..Len(seen) : seen[k] = Head(labels)
         THEN Without(Tail(labels), seen)
         ELSE << Head(labels) >> \o Without(Tail(labels), seen)

\* the columns of the frames of a list, in order of first appearance
RECURSIVE UnionColumns(_)
UnionColumns(frames) ==
    IF frames = <<>> THEN <<>>
    ELSE LET before == UnionColumns(SubSeq(frames, 1, Len(frames) - 1))
         IN  before \o Without(frames[Len(frames)].columns, before)

\* a row of df under the columns cols: NaN where df has no such column
Realign(df, row, cols) ==
    [k \in 1..Len(cols) |->
        IF \E j \in 1..Len(df.columns) : df.columns[j] = cols[k]
        THEN row[CHOOSE j \in 1..Len(df.columns) : df.columns[j] = cols[k]]
        ELSE NaN]

\* the frames of a list one under the other, each row under the columns cols
RECURSIVE StackRows(_, _)
StackRows(frames, cols) ==
    IF frames = <<>> THEN EmptyFrame
    ELSE LET rest == StackRows(Tail(frames), cols)
             df   == Head(frames)
         IN  Frame(df.index \o rest.index, cols,
                   [i \in 1..Len(df.values) |-> Realign(df, df.values[i], cols)]
                       \o rest.values)

\* pd.concat(tables): along axis 0, the rows of the tables one under the
\* other, under the union of their columns
pd_concat(frames) == StackRows(frames, UnionColumns(frames))

(* ----------------------------- row shaping ---------------------------- *)

\* isinstance(row, pd.Series) and not row.empty
IsNonEmptySeries(row) == row.kind = "Series" /\ Len(row.fields) > 0

\* a mutation: the features come first
ConstructFeatureRow_FeaturesFirst(row, row_data) ==
    IF IsNonEmptySeries(row)
    THEN DataFrame(row_data.fields \o row.fields)
    ELSE row_data

\* pd.concat([row, row_data.transpose()], axis=0).transpose(), or row_data
ConstructFeatureRow(row, row_data) ==
    IF IsNonEmptySeries(row)
    THEN DataFrame(row.fields \o row_data.fields)
    ELSE row_data

\* a Series next to a DataFrame in pd.concat: a table of one column, 0,
\* with the labels of the Series as its index
SeriesFrame(row) ==
    Frame([i \in 1..Len(row.fields) |-> row.fields[i][1]], << "0" >>,
          [i \in 1..Len(row.fields) |-> << row.fields[i][2] >>])

\* a one-row DataFrame as a table: its row has the index 0
OneRowFrame(row_data) ==
    Frame(<< "0" >>, [j \in 1..Len(row_data.fields) |-> row_data.fields[j][1]],
          << [j \in 1..Len(row_data.fields) |-> row_data.fields[j][2]] >>)

\* pd.concat([row, row_data], axis=0) for a Series row: with a Series the
\* fields of both, one after the other; with a DataFrame a table with a row
\* for each field of row and for each row of row_data, NaN elsewhere
ConcatAxis0(row, row_data) ==
    IF row_data.kind = "Series"
    THEN Series(row.fields \o row_data.fields)
    ELSE LET table == pd_concat(<< SeriesFrame(row), OneRowFrame(row_data) >>)
         IN  [kind |-> "DataFrame", index |-> table.index,
              columns |-> table.columns, values |-> table.values]

(* ------------------------------ the disk ------------------------------ *)

\* feature_row.to_csv(feature_table): the file holds this row and no other
to_csv(disk, feature_table, feature_row) ==
    (feature_table :> << feature_row >>) @@ disk

\* mhealthx.xio.row_to_table(feature_row, feature_table): the row is added
\* to the table, which is created if it does not exist
row_to_table(disk, feature_table, feature_row) ==
    IF feature_table \in DOMAIN disk
    THEN [disk EXCEPT ![feature_table] = Append(@, feature_row)]
    ELSE (feature_table :> << feature_row >>) @@ disk

(* ------------------------------ the state ----------------------------- *)

VARIABLES
    pc,             \* position of the running call, or "idle"/"done"/"raised"
    fn,             \* the function called
    args,           \* its arguments (file, row, table_stem, save_rows, table)
    extracted,      \* what the external tool or library produced
    argn,           \* run_openSMILE / openSMILE: the output file of the command
    row_data,       \* the local row_data
    feature_row,    \* the local feature_row
    feature_table,  \* the local feature_table
    steps,          \* the steps the running call has entered, in order
    printed,        \* number of "I/O error" lines the running call printed
    failure,        \* the exception the running call met: "none", "read_ioerror",
                    \* "write_ioerror", or "unhandled" (it left the function)
    ret,            \* what the call returned
    disk,           \* table files: path -> sequence of rows
    disk0,          \* the table files when the running call started
    written,        \* the successful table writes of all calls, in order
    ncalls          \* number of calls made

extractVars ==
    << pc, fn, args, extracted, argn, row_data, feature_row, feature_table,
       steps, printed, failure, ret, disk, disk0, written, ncalls >>

\* the state of the functions of synapse_io.py
VARIABLES
    spc,              \* position of the running call, or "idle"/"done"/"raised"
    sfn,              \* the function called
    sargs,            \* its arguments
    table_data,       \* read_synapse_table_files: the table read from Synapse
    download_limit,   \* read_synapse_table_files: the local download_limit
    icol,             \* number of columns the column loop has taken
    irow,             \* the row loop's irow
    files_per_column, \* the local files_per_column
    downloaded_files, \* the local downloaded_files
    downloads,        \* the syn.downloadTableFile calls made, in order
    files_handles,    \* files_to_synapse_table: the local files_handles
    uploads,          \* the syn._chunkedUploadFile calls made, in order
    stored,           \* what the running call stored in Synapse
    sret              \* what the call returned

\* the state of concatenate_tables_to_synapse_table
VARIABLES
    cargs,            \* its arguments (kind of tables, tables, transpose_tables,
                      \* start_row)
    dfs,              \* the local dfs
    tables,           \* the local tables, as given to pd.concat
    first_table,      \* the local first_table
    concatenated      \* the local table_data of concatenate_tables_to_synapse_table

concatVars == << cargs, dfs, tables, first_table, concatenated >>

\* the state of copy_synapse_table and write_synapse_table
VARIABLES
    wargs,            \* their arguments
    wtable_data       \* the local table_data: in write_synapse_table it is the
                      \* caller's DataFrame itself, not a copy

writeVars == << wargs, wtable_data >>

synapseVars ==
    << spc, sfn, sargs, table_data, download_limit, icol, irow,
       files_per_column, downloaded_files, downloads, files_handles, uploads,
       stored, sret, concatVars, writeVars >>

vars == << extractVars, synapseVars >>

NoArgs ==
    [file |-> <<>>, isfile |-> FALSE, row |-> NoneRow, table_stem |-> <<>>,
     save_rows |-> FALSE, table |-> <<>>]

NoReturn == [returned |-> FALSE, feature_row |-> NoneRow, feature_table |-> None]

Returned(fr, ft) == [returned |-> TRUE, feature_row |-> fr, feature_table |-> ft]

NoSynapseArgs ==
    [column_names |-> <<>>, download_limit |-> None, in_files |-> <<>>,
     synapse_project_id |-> <<>>, column_name |-> <<>>]

NotStored == [schema |-> <<>>, rows |-> <<>>]

NoSynapseReturn == [returned |-> FALSE, value |-> None]

NoConcatArgs ==
    [kind |-> "none", tables |-> <<>>, transpose_tables |-> FALSE, start_row |-> 0,
     synapse_project_id |-> <<>>]

NoWriteArgs ==
    [table_data |-> EmptyFrame, synapse_table_id |-> <<>>,
     synapse_project_id |-> <<>>, remove_columns |-> <<>>]

WriteInit ==
    /\ wargs = NoWriteArgs
    /\ wtable_data = EmptyFrame

ConcatInit ==
    /\ cargs = NoConcatArgs
    /\ dfs = <<>>
    /\ tables = <<>>
    /\ first_table = TRUE
    /\ concatenated = EmptyFrame

SynapseInit ==
    /\ ConcatInit
    /\ WriteInit
    /\ spc = "idle"
    /\ sfn = "none"
    /\ sargs = NoSynapseArgs
    /\ table_data = <<>>
    /\ download_limit = None
    /\ icol = 0
    /\ irow = 0
    /\ files_per_column = <<>>
    /\ downloaded_files = <<>>
    /\ downloads = <<>>
    /\ files_handles = <<>>
    /\ uploads = <<>>
    /\ stored = NotStored
    /\ sret = NoSynapseReturn

Init ==
    /\ SynapseInit
    /\ pc = "idle"
    /\ fn = "none"
    /\ args = NoArgs
    /\ extracted = NoneRow
    /\ argn = None
    /\ row_data = NoneRow
    /\ feature_row = NoneRow
    /\ feature_table = None
    /\ steps = <<>>
    /\ printed = 0
    /\ failure = "none"
    /\ ret = NoReturn
    /\ disk = << >>
    /\ disk0 = << >>
    /\ written = <<>>
    /\ ncalls = 0

\* a call may start when no call is running
Callable == pc \in {"idle", "done", "raised"} /\ ncalls < MaxCalls

\* the locals of a fresh call
Enter(f, a, start) ==
    /\ fn' = f
    /\ args' = a
    /\ extracted' = NoneRow
    /\ argn' = None
    /\ row_data' = NoneRow
    /\ feature_row' = NoneRow
    /\ feature_table' = None
    /\ steps' = <<>>
    /\ printed' = 0
    /\ failure' = "none"
    /\ ret' = NoReturn
    /\ ncalls' = ncalls + 1
    /\ pc' = start
    /\ disk0' = disk
    /\ UNCHANGED << disk, written >>
    /\ UNCHANGED synapseVars

\* the record of a successful write
WriteRecord(table) ==
    [fn |-> fn, file |-> args.file, table_stem |-> args.table_stem,
     save_rows |-> args.save_rows, table |-> table]

(* --------------------------- run_openSMILE ---------------------------- *)

\* a mutation: the branches of save_rows are exchanged
Destination_openSMILE_Swapped(save_rows, table_stem, out) ==
    IF save_rows THEN SharedTable(table_stem)
                 ELSE RowTable_openSMILE(table_stem, out)

\* feature_table of run_openSMILE: the per-row file or the shared table
Destination_openSMILE(save_rows, table_stem, out) ==
    IF save_rows THEN RowTable_openSMILE(table_stem, out)
                 ELSE SharedTable(table_stem)

\* feature_table of run_pyGait
Destination_pyGait(save_rows, table_stem, file_path) ==
    IF save_rows THEN RowTable_pyGait(table_stem, file_path)
                 ELSE SharedTable(table_stem)

\* a mutation: the shared table is rewritten, not appended to
WriteRow_Overwrite(d, save_rows, table, fr) == to_csv(d, table, fr)

\* what a write that is cut short leaves of a row: a part of its text,
\* which is no row
Fragment == [kind |-> "fragment", fields |-> <<>>]

\* the disks a write that raises IOError can leave; the write is not atomic.
\* to_csv opens its file for writing, which creates or empties it, before it
\* writes: the file is as it was (the open failed), empty, or holds a part
\* of the row or the whole row (the error came after the text was written).
\* row_to_table adds to the table: the table is as it was, or it exists
\* (created if it was not there) and has gained nothing, a part of the row
\* or the whole row
FailedWrite(d, save_rows, table, fr) ==
    LET before == IF table \in DOMAIN d THEN d[table] ELSE <<>>
    IN  IF save_rows
        THEN { d, (table :> <<>>) @@ d, (table :> << Fragment >>) @@ d,
               (table :> << fr >>) @@ d }
        ELSE { d, (table :> before) @@ d,
               (table :> Append(before, Fragment)) @@ d,
               (table :> Append(before, fr)) @@ d }

\* feature_row.to_csv(feature_table) or row_to_table(feature_row, feature_table)
WriteRow(d, save_rows, table, fr) ==
    IF save_rows THEN to_csv(d, table, fr) ELSE row_to_table(d, table, fr)

\* feature_row = None; feature_table = None; if os.path.isfile(audio_file):
OS_Call ==
    /\ Callable
    /\ \E audio_file \in InputFiles, row \in Rows, table_stem \in TableStems,
          save_rows \in BOOLEAN, isfile \in BOOLEAN :
          Enter("run_openSMILE",
                [file |-> audio_file, isfile |-> isfile, row |-> row,
                 table_stem |-> table_stem, save_rows |-> save_rows,
                 table |-> <<>>],
                IF isfile THEN "os_run" ELSE "os_return")

\* run_command(...): SMILExtract writes its output file, or fails to
OS_RunCommand ==
    /\ pc = "os_run"
    /\ \E out \in OpenSmileRows \cup {NoneRow} : extracted' = out
    /\ argn' = run_command_argn(OutputCsv(args.file))
    /\ steps' = Append(steps, "extract")
    /\ pc' = "os_read"
    /\ UNCHANGED << fn, args, row_data, feature_row, feature_table, printed,
                    ret, disk, written, ncalls, disk0, failure >>
    /\ UNCHANGED synapseVars

\* row_data = pd.read_csv(argn, sep=";")
OS_ReadCsv ==
    /\ pc = "os_read"
    /\ extracted # NoneRow
    /\ row_data' = extracted
    /\ steps' = Append(steps, "read")
    /\ pc' = "os_construct"
    /\ UNCHANGED << fn, args, extracted, argn, feature_row, feature_table,
                    printed, ret, disk, written, ncalls, disk0, failure >>
    /\ UNCHANGED synapseVars

\* a mutation: after the I/O error the call goes on to the write
OS_ReadCsvIOError_GoesOn ==
    /\ pc = "os_read"
    /\ printed' = printed + 1
    /\ failure' = "read_ioerror"
    /\ steps' = Append(steps, "read")
    /\ pc' = "os_write"
    /\ UNCHANGED << fn, args, extracted, argn, row_data, feature_row,
                    feature_table, ret, disk, written, ncalls, disk0 >>
    /\ UNCHANGED synapseVars

\* except IOError as e: print(...)
OS_ReadCsvIOError ==
    /\ pc = "os_read"
    /\ printed' = printed + 1
    /\ failure' = "read_ioerror"
    /\ steps' = Append(steps, "read")
    /\ pc' = "os_return"
    /\ UNCHANGED << fn, args, extracted, argn, row_data, feature_row,
                    feature_table, ret, disk, written, ncalls, disk0 >>
    /\ UNCHANGED synapseVars

\* pd.read_csv raises something that is no IOError: it leaves the function
OS_ReadCsvRaises ==
    /\ pc = "os_read"
    /\ failure' = "unhandled"
    /\ steps' = Append(steps, "read")
    /\ pc' = "raised"
    /\ UNCHANGED << fn, args, extracted, argn, row_data, feature_row,
                    feature_table, printed, ret, disk, written, ncalls, disk0 >>
    /\ UNCHANGED synapseVars

\* the else branch: construct the feature row
OS_Construct ==
    /\ pc = "os_construct"
    /\ feature_row' = ConstructFeatureRow(args.row, row_data)
    /\ steps' = Append(steps, "construct")
    /\ pc' = "os_write"
    /\ UNCHANGED << fn, args, extracted, argn, row_data, feature_table,
                    printed, ret, disk, written, ncalls, disk0, failure >>
    /\ UNCHANGED synapseVars

\* the write succeeds
OS_Write ==
    /\ pc = "os_write"
    /\ feature_table' =
           Destination_openSMILE(args.save_rows, args.table_stem, argn)
    /\ disk' = WriteRow(disk, args.save_rows, feature_table', feature_row)
    /\ written' = Append(written, WriteRecord(feature_table'))
    /\ steps' = Append(steps, "write")
    /\ pc' = "os_return"
    /\ UNCHANGED << fn, args, extracted, argn, row_data, feature_row, printed,
                    ret, ncalls, disk0, failure >>
    /\ UNCHANGED synapseVars

\* a mutation: the write is tried again after an I/O error
OS_WriteIOError_Retry ==
    /\ pc = "os_write"
    /\ Len(steps) < 6
    /\ printed' = printed + 1
    /\ failure' = "write_ioerror"
    /\ steps' = Append(steps, "write")
    /\ UNCHANGED << pc, fn, args, extracted, argn, row_data, feature_row,
                    feature_table, ret, disk, written, ncalls, disk0 >>
    /\ UNCHANGED synapseVars

\* a mutation: feature_table keeps the path that could not be written
OS_WriteIOError_KeepsPath ==
    /\ pc = "os_write"
    /\ feature_table' =
           Destination_openSMILE(args.save_rows, args.table_stem, argn)
    /\ printed' = printed + 1
    /\ failure' = "write_ioerror"
    /\ steps' = Append(steps, "write")
    /\ pc' = "os_return"
    /\ UNCHANGED << fn, args, extracted, argn, row_data, feature_row, ret,
                    disk, written, ncalls, disk0 >>
    /\ UNCHANGED synapseVars

\* the write raises IOError: print(...); feature_table = None
OS_WriteIOError ==
    /\ pc = "os_write"
    /\ disk' \in FailedWrite(disk, args.save_rows,
                              Destination_openSMILE(args.save_rows,
                                                    args.table_stem, argn),
                              feature_row)
    /\ feature_table' = None
    /\ printed' = printed + 1
    /\ failure' = "write_ioerror"
    /\ steps' = Append(steps, "write")
    /\ pc' = "os_return"
    /\ UNCHANGED << fn, args, extracted, argn, row_data, feature_row, ret,
                    written, ncalls, disk0 >>
    /\ UNCHANGED synapseVars

\* return feature_row, feature_table
OS_Return ==
    /\ pc = "os_return"
    /\ ret' = Returned(feature_row, feature_table)
    /\ pc' = "done"
    /\ UNCHANGED << fn, args, extracted, argn, row_data, feature_row,
                    feature_table, steps, printed, disk, written, ncalls, disk0, failure >>
    /\ UNCHANGED synapseVars

(* ----------------------------- run_pyGait ----------------------------- *)

\* run_pyGait has no guard on its input: the library calls come first
PG_Call ==
    /\ Callable
    /\ \E file_path \in InputFiles, row \in Rows, table_stem \in TableStems,
          save_rows \in BOOLEAN :
          Enter("run_pyGait",
                [file |-> file_path, isfile |-> TRUE, row |-> row,
                 table_stem |-> table_stem, save_rows |-> save_rows,
                 table |-> <<>>],
                "pg_extract")

\* heel_strikes(...), gait(...), root_mean_square(data)
PG_Extract ==
    /\ pc = "pg_extract"
    /\ \E g \in GaitValues : extracted' = GaitRow(g)
    /\ steps' = Append(steps, "extract")
    /\ pc' = "pg_rowdata"
    /\ UNCHANGED << fn, args, argn, row_data, feature_row, feature_table,
                    printed, ret, disk, written, ncalls, disk0, failure >>
    /\ UNCHANGED synapseVars

\* a library call raises: nothing in run_pyGait catches it
PG_ExtractRaises ==
    /\ pc = "pg_extract"
    /\ failure' = "unhandled"
    /\ steps' = Append(steps, "extract")
    /\ pc' = "raised"
    /\ UNCHANGED << fn, args, extracted, argn, row_data, feature_row,
                    feature_table, printed, ret, disk, written, ncalls, disk0 >>
    /\ UNCHANGED synapseVars

\* row_data = pd.DataFrame({...}, index=[0])
PG_RowData ==
    /\ pc = "pg_rowdata"
    /\ row_data' = extracted
    /\ steps' = Append(steps, "read")
    /\ pc' = "pg_construct"
    /\ UNCHANGED << fn, args, extracted, argn, feature_row, feature_table,
                    printed, ret, disk, written, ncalls, disk0, failure >>
    /\ UNCHANGED synapseVars

\* construct the feature row
PG_Construct ==
    /\ pc = "pg_construct"
    /\ feature_row' = ConstructFeatureRow(args.row, row_data)
    /\ steps' = Append(steps, "construct")
    /\ pc' = "pg_write"
    /\ UNCHANGED << fn, args, extracted, argn, row_data, feature_table,
                    printed, ret, disk, written, ncalls, disk0, failure >>
    /\ UNCHANGED synapseVars

\* the write succeeds
PG_Write ==
    /\ pc = "pg_write"
    /\ feature_table' =
           Destination_pyGait(args.save_rows, args.table_stem, args.file)
    /\ disk' = WriteRow(disk, args.save_rows, feature_table', feature_row)
    /\ written' = Append(written, WriteRecord(feature_table'))
    /\ steps' = Append(steps, "write")
    /\ pc' = "pg_return"
    /\ UNCHANGED << fn, args, extracted, argn, row_data, feature_row, printed,
                    ret, ncalls, disk0, failure >>
    /\ UNCHANGED synapseVars

\* the write raises IOError: print(...); feature_table = None
PG_WriteIOError ==
    /\ pc = "pg_write"
    /\ disk' \in FailedWrite(disk, args.save_rows,
                              Destination_pyGait(args.save_rows,
                                                 args.table_stem, args.file),
                              feature_row)
    /\ feature_table' = None
    /\ printed' = printed + 1
    /\ failure' = "write_ioerror"
    /\ steps' = Append(steps, "write")
    /\ pc' = "pg_return"
    /\ UNCHANGED << fn, args, extracted, argn, row_data, feature_row, ret,
                    written, ncalls, disk0 >>
    /\ UNCHANGED synapseVars

\* return feature_row, feature_table
PG_Return ==
    /\ pc = "pg_return"
    /\ ret' = Returned(feature_row, feature_table)
    /\ pc' = "done"
    /\ UNCHANGED << fn, args, extracted, argn, row_data, feature_row,
                    feature_table, steps, printed, disk, written, ncalls, disk0, failure >>
    /\ UNCHANGED synapseVars

(* ------------------------ extractors.openSMILE ------------------------ *)

\* the feature_table argument: empty, or a table file
EX_Call ==
    /\ Callable
    /\ \E row \in ExRows, table \in FeatureTables :
          Enter("openSMILE",
                [file |-> <<>>, isfile |-> TRUE, row |-> row,
                 table_stem |-> <<>>, save_rows |-> FALSE, table |-> table],
                "ex_fetch")

\* row, new_file = get_convert_audio(...): row is bound again, to the Series
\* given or to the one that was read
EX_GetConvertAudio ==
    /\ pc = "ex_fetch"
    /\ \E row \in FetchedRows \cup
                    (IF args.row.kind = "Series" THEN {args.row} ELSE {}),
          new_file \in InputFiles :
          args' = [args EXCEPT !.row = row, !.file = new_file]
    /\ steps' = Append(steps, "fetch")
    /\ pc' = "ex_run"
    /\ UNCHANGED << fn, extracted, argn, row_data, feature_row, feature_table,
                    printed, ret, disk, written, ncalls, disk0, failure >>
    /\ UNCHANGED synapseVars

\* cline, args, arg1, argn = run_command(..., argn=''.join([new_file, '.csv']))
EX_RunCommand ==
    /\ pc = "ex_run"
    /\ \E out \in ArffRows : extracted' = out
    /\ argn' = run_command_argn(OutputCsv(args.file))
    /\ steps' = Append(steps, "extract")
    /\ pc' = "ex_read"
    /\ UNCHANGED << fn, args, row_data, feature_row, feature_table, printed,
                    ret, disk, written, ncalls, disk0, failure >>
    /\ UNCHANGED synapseVars

\* row_data, output_csv_file = arff_to_csv(arff_file=argn, ...)
EX_ArffToCsv ==
    /\ pc = "ex_read"
    /\ row_data' = extracted
    /\ steps' = Append(steps, "read")
    /\ pc' = "ex_construct"
    /\ UNCHANGED << fn, args, extracted, argn, feature_row, feature_table,
                    printed, ret, disk, written, ncalls, disk0, failure >>
    /\ UNCHANGED synapseVars

\* feature_row = pd.concat([row, row_data], axis=0)
EX_Construct ==
    /\ pc = "ex_construct"
    /\ feature_row' = ConcatAxis0(args.row, row_data)
    /\ steps' = Append(steps, "construct")
    /\ pc' = "ex_write"
    /\ UNCHANGED << fn, args, extracted, argn, row_data, feature_table,
                    printed, ret, disk, written, ncalls, disk0, failure >>
    /\ UNCHANGED synapseVars

\* if feature_table: row_to_table(feature_row, feature_table)
EX_Write ==
    /\ pc = "ex_write"
    /\ IF args.table # <<>>
       THEN /\ disk' = row_to_table(disk, args.table, feature_row)
            /\ written' = Append(written, WriteRecord(args.table))
            /\ steps' = Append(steps, "write")
       ELSE UNCHANGED << disk, written, steps >>
    /\ pc' = "ex_return"
    /\ UNCHANGED << fn, args, extracted, argn, row_data, feature_row,
                    feature_table, printed, ret, ncalls, disk0, failure >>
    /\ UNCHANGED synapseVars

\* a call of openSMILE raises: nothing in openSMILE catches it; a
\* row_to_table that raises may have written to the table
EX_Raises ==
    /\ pc \in {"ex_fetch", "ex_run", "ex_read", "ex_construct", "ex_write"}
    /\ pc = "ex_write" => args.table # <<>>
    /\ IF pc = "ex_write"
       THEN disk' \in FailedWrite(disk, FALSE, args.table, feature_row)
       ELSE UNCHANGED disk
    /\ failure' = "unhandled"
    /\ steps' = Append(steps, CASE pc = "ex_fetch" -> "fetch"
                                [] pc = "ex_run" -> "extract"
                                [] pc = "ex_read" -> "read"
                                [] pc = "ex_construct" -> "construct"
                                [] pc = "ex_write" -> "write")
    /\ pc' = "raised"
    /\ UNCHANGED << fn, args, extracted, argn, row_data, feature_row,
                    feature_table, printed, ret, written, ncalls, disk0 >>
    /\ UNCHANGED synapseVars

\* return feature_row
EX_Return ==
    /\ pc = "ex_return"
    /\ ret' = Returned(feature_row, None)
    /\ pc' = "done"
    /\ UNCHANGED << fn, args, extracted, argn, row_data, feature_row,
                    feature_table, steps, printed, disk, written, ncalls, disk0, failure >>
    /\ UNCHANGED synapseVars

(* ---------------------- read_synapse_table_files ---------------------- *)

\* the file-handle columns of the Synapse table
ColumnNames == { "audio_audio.m4a", "audio_countdown.m4a" }

\* a cell of a file-handle column: no file (NaN), or a file handle ID
Cells == { "nan", "id" }

\* results.asDataFrame(): the rows of the table, each a value per column
Tables == UNION { [1..n -> [ColumnNames -> Cells]] : n \in 0..MaxRows }

\* the column_names argument: none, one, or both in either order
ColumnNameLists ==
    { <<>> } \cup { <<c>> : c \in ColumnNames }
             \cup { <<c, d>> : <<c, d>> \in { p \in ColumnNames \X ColumnNames : p[1] # p[2] } }

\* download_limit: None, or an integer, which may exceed the table's rows
NoLimit == [isint |-> FALSE, n |-> 0]
IntLimit(n) == [isint |-> TRUE, n |-> n]
DownloadLimits == { NoLimit } \cup { IntLimit(n) : n \in 0..(MaxRows + 1) }

Digits == << "0", "1", "2", "3", "4", "5", "6", "7", "8", "9" >>

\* fileinfo['path']: the file of a row and column, under out_path
DownloadPath(column_name, rowId) == << ".", "/", column_name, Digits[rowId + 1] >>

\* table_data.shape[0]
Shape0(t) == Len(t)

\* if type(download_limit) != int: download_limit = table_data.shape[0]
RowsToLoop(limit, t) == IF limit.isint THEN limit ELSE IntLimit(Shape0(t))

\* the column the column loop is at
column_name == sargs.column_names[icol]

\* a call starts from the initial state: the calls share no state, so a
\* behaviour holds one call
SynapseCallable == spc = "idle"

\* the locals of a fresh call
SynapseEnter(f, a, start) ==
    /\ sfn' = f
    /\ sargs' = a
    /\ icol' = 0
    /\ irow' = 0
    /\ files_per_column' = <<>>
    /\ downloaded_files' = <<>>
    /\ downloads' = <<>>
    /\ files_handles' = <<>>
    /\ uploads' = <<>>
    /\ stored' = NotStored
    /\ sret' = NoSynapseReturn
    /\ spc' = start
    /\ UNCHANGED extractVars

\* table_data = results.asDataFrame(); downloaded_files = [];
\* if column_names: the number of rows to loop through is set
RS_Call ==
    /\ SynapseCallable
    /\ \E t \in Tables, names \in ColumnNameLists, limit \in DownloadLimits :
          /\ table_data' = t
          /\ download_limit' = IF names # <<>> THEN RowsToLoop(limit, t) ELSE limit
          /\ SynapseEnter("read_synapse_table_files",
                          [NoSynapseArgs EXCEPT !.column_names = names,
                                                !.download_limit = limit],
                          IF names # <<>> THEN "rs_column" ELSE "rs_return")
    /\ UNCHANGED concatVars
    /\ UNCHANGED writeVars

\* for column_name in column_names: column_data = ...; files_per_column = []
RS_NextColumn ==
    /\ spc = "rs_column"
    /\ icol < Len(sargs.column_names)
    /\ icol' = icol + 1
    /\ irow' = 0
    /\ files_per_column' = <<>>
    /\ spc' = "rs_row"
    /\ UNCHANGED << sfn, sargs, table_data, download_limit, downloaded_files,
                    downloads, files_handles, uploads, stored, sret >>
    /\ UNCHANGED extractVars
    /\ UNCHANGED concatVars
    /\ UNCHANGED writeVars

\* the column loop is over
RS_ColumnsDone ==
    /\ spc = "rs_column"
    /\ icol = Len(sargs.column_names)
    /\ spc' = "rs_return"
    /\ UNCHANGED << sfn, sargs, table_data, download_limit, icol, irow,
                    files_per_column, downloaded_files, downloads,
                    files_handles, uploads, stored, sret >>
    /\ UNCHANGED extractVars
    /\ UNCHANGED concatVars
    /\ UNCHANGED writeVars

\* column_data[irow] for an irow that is no row of the table raises
RS_RowOutOfRange ==
    /\ spc = "rs_row"
    /\ irow < download_limit.n
    /\ irow >= Shape0(table_data)
    /\ spc' = "raised"
    /\ UNCHANGED << sfn, sargs, table_data, download_limit, icol, irow,
                    files_per_column, downloaded_files, downloads,
                    files_handles, uploads, stored, sret >>
    /\ UNCHANGED extractVars
    /\ UNCHANGED concatVars
    /\ UNCHANGED writeVars

\* a mutation: a row without a file adds no entry
RS_RowNoFile_Skips ==
    /\ spc = "rs_row"
    /\ irow < download_limit.n
    /\ irow < Shape0(table_data)
    /\ table_data[irow + 1][column_name] = "nan"
    /\ irow' = irow + 1
    /\ UNCHANGED << spc, sfn, sargs, table_data, download_limit, icol,
                    files_per_column, downloaded_files, downloads,
                    files_handles, uploads, stored, sret >>
    /\ UNCHANGED extractVars
    /\ UNCHANGED concatVars
    /\ UNCHANGED writeVars

\* if np.isnan(column_data[irow]): files_per_column.append(None)
RS_RowNoFile ==
    /\ spc = "rs_row"
    /\ irow < download_limit.n
    /\ irow < Shape0(table_data)
    /\ table_data[irow + 1][column_name] = "nan"
    /\ files_per_column' = Append(files_per_column, None)
    /\ irow' = irow + 1
    /\ UNCHANGED << spc, sfn, sargs, table_data, download_limit, icol,
                    downloaded_files, downloads, files_handles, uploads,
                    stored, sret >>
    /\ UNCHANGED extractVars
    /\ UNCHANGED concatVars
    /\ UNCHANGED writeVars

\* fileinfo = syn.downloadTableFile(schema, rowId=irow, ..., column=column_name);
\* the path is appended if fileinfo, the empty string if not
RS_RowDownload ==
    /\ spc = "rs_row"
    /\ irow < download_limit.n
    /\ irow < Shape0(table_data)
    /\ table_data[irow + 1][column_name] # "nan"
    /\ \E found \in BOOLEAN :
          /\ downloads' =
                 Append(downloads,
                        [column |-> column_name, rowId |-> irow, found |-> found,
                         path |-> DownloadPath(column_name, irow)])
          /\ files_per_column' =
                 Append(files_per_column,
                        IF found THEN DownloadPath(column_name, irow) ELSE <<>>)
    /\ irow' = irow + 1
    /\ UNCHANGED << spc, sfn, sargs, table_data, download_limit, icol,
                    downloaded_files, files_handles, uploads, stored, sret >>
    /\ UNCHANGED extractVars
    /\ UNCHANGED concatVars
    /\ UNCHANGED writeVars

\* the row loop is over: downloaded_files.append(files_per_column)
RS_RowsDone ==
    /\ spc = "rs_row"
    /\ irow >= download_limit.n
    /\ downloaded_files' = Append(downloaded_files, files_per_column)
    /\ spc' = "rs_column"
    /\ UNCHANGED << sfn, sargs, table_data, download_limit, icol, irow,
                    files_per_column, downloads, files_handles, uploads,
                    stored, sret >>
    /\ UNCHANGED extractVars
    /\ UNCHANGED concatVars
    /\ UNCHANGED writeVars

\* return table_data, downloaded_files
RS_Return ==
    /\ spc = "rs_return"
    /\ sret' = [returned |-> TRUE, value |-> << table_data, downloaded_files >>]
    /\ spc' = "done"
    /\ UNCHANGED << sfn, sargs, table_data, download_limit, icol, irow,
                    files_per_column, downloaded_files, downloads,
                    files_handles, uploads, stored >>
    /\ UNCHANGED extractVars
    /\ UNCHANGED concatVars
    /\ UNCHANGED writeVars

(* ----------------------- files_to_synapse_table ----------------------- *)

\* in_files: up to MaxFiles paths
FileLists == UNION { [1..n -> InputFiles] : n \in 0..MaxFiles }

ProjectIds == { <<"s", "y", "n", "1">> }

\* the ids Synapse gives to uploaded files
HandleIds == 1..(MaxFiles + 1)

\* Column(name=column_name, columnType='FILEHANDLEID')
new_column_header(name) == [name |-> name, columnType |-> "FILEHANDLEID"]

\* files_handles = []
FS_Call ==
    /\ SynapseCallable
    /\ \E in_files \in FileLists, project \in ProjectIds :
          SynapseEnter("files_to_synapse_table",
                       [NoSynapseArgs EXCEPT !.in_files = in_files,
                                             !.synapse_project_id = project,
                                             !.column_name = "fileID"],
                       IF in_files # <<>> THEN "fs_upload" ELSE "fs_schema")
    /\ UNCHANGED << table_data, download_limit >>
    /\ UNCHANGED concatVars
    /\ UNCHANGED writeVars

\* file_handle = syn._chunkedUploadFile(in_file);
\* files_handles.append([file_handle['id']])
FS_Upload ==
    /\ spc = "fs_upload"
    /\ LET in_file == sargs.in_files[Len(files_handles) + 1]
       IN  \E id \in HandleIds \ { uploads[i].id : i \in 1..Len(uploads) } :
              /\ uploads' = Append(uploads, [file |-> in_file, id |-> id])
              /\ files_handles' = Append(files_handles, <<id>>)
    /\ spc' = IF Len(files_handles') = Len(sargs.in_files)
              THEN "fs_schema" ELSE "fs_upload"
    /\ UNCHANGED << sfn, sargs, table_data, download_limit, icol, irow,
                    files_per_column, downloaded_files, downloads, stored, sret >>
    /\ UNCHANGED extractVars
    /\ UNCHANGED concatVars
    /\ UNCHANGED writeVars

\* schema = syn.store(Schema(name=table_name, columns=[new_column_header],
\*                           parent=synapse_project_id))
FS_StoreSchema ==
    /\ spc = "fs_schema"
    /\ stored' = [stored EXCEPT !.schema =
                      [columns |-> << new_column_header(sargs.column_name) >>,
                       parent |-> sargs.synapse_project_id]]
    /\ spc' = "fs_rows"
    /\ UNCHANGED << sfn, sargs, table_data, download_limit, icol, irow,
                    files_per_column, downloaded_files, downloads,
                    files_handles, uploads, sret >>
    /\ UNCHANGED extractVars
    /\ UNCHANGED concatVars
    /\ UNCHANGED writeVars

\* syn.store(RowSet(columns=[new_column_header], schema=schema,
\*                  rows=[Row(r) for r in files_handles]))
FS_StoreRows ==
    /\ spc = "fs_rows"
    /\ stored' = [stored EXCEPT !.rows = files_handles]
    /\ spc' = "fs_return"
    /\ UNCHANGED << sfn, sargs, table_data, download_limit, icol, irow,
                    files_per_column, downloaded_files, downloads,
                    files_handles, uploads, sret >>
    /\ UNCHANGED extractVars
    /\ UNCHANGED concatVars
    /\ UNCHANGED writeVars

\* the function ends without a return statement: it returns None
FS_Return ==
    /\ spc = "fs_return"
    /\ sret' = [returned |-> TRUE, value |-> None]
    /\ spc' = "done"
    /\ UNCHANGED << sfn, sargs, table_data, download_limit, icol, irow,
                    files_per_column, downloaded_files, downloads,
                    files_handles, uploads, stored >>
    /\ UNCHANGED extractVars
    /\ UNCHANGED concatVars
    /\ UNCHANGED writeVars

(* ---------------- concatenate_tables_to_synapse_table ----------------- *)

\* the column labels of the input tables: two disjoint lists
ColumnLists == { <<"A", "B">>, <<"E">> }

\* the index 0 .. n-1 that pandas gives a table without an index
RangeIndex(n) == [i \in 1..n |-> Digits[i]]

\* an input table of n rows: row i of column c holds the value <<c, i>>
InputTable(columns, n) ==
    Frame(RangeIndex(n), columns,
          [i \in 1..n |-> [j \in 1..Len(columns) |-> << columns[j], Digits[i] >>]])

InputTables == { InputTable(c, n) : c \in ColumnLists, n \in 0..MaxRows }

\* the tables argument: one to MaxTables tables, passed as file paths
\* ("str"), as DataFrames, or as something else
TableLists == UNION { [1..k -> InputTables] : k \in 1..MaxTables }

TableKinds == { "str", "DataFrame", "other" }

\* start_row: zero, or a positive integer, which may exceed a table's rows
StartRows == 0..(MaxRows + 1)

\* df.shape[0]
FrameShape0(df) == Len(df.index)

\* pd.read_table(table_file, index_col=False): the table the file holds,
\* with the index 0 .. n-1
read_table(table_file) ==
    Frame(RangeIndex(Len(table_file.values)), table_file.columns, table_file.values)

\* df.transpose()
Transpose(df) ==
    Frame(df.columns, df.index,
          [j \in 1..Len(df.columns) |->
              [i \in 1..Len(df.index) |-> df.values[i][j]]])

\* df[start:stop]: the rows at the positions start .. stop-1 that exist
SliceRows(df, start, stop) ==
    LET last == IF stop <= FrameShape0(df) THEN stop ELSE FrameShape0(df)
    IN  Frame(SubSeq(df.index, start + 1, last), df.columns,
              SubSeq(df.values, start + 1, last))

\* the table the file loop is at
table_file == tables[Len(dfs) + 1]

\* df = pd.read_table(...); if transpose_tables: df = df.transpose()
LoopFrame ==
    LET df == read_table(table_file)
    IN  IF cargs.transpose_tables THEN Transpose(df) ELSE df

\* if start_row > 0 and not first_table:
CutsRows == cargs.start_row > 0 /\ ~first_table

TableName == <<"n">>

\* table.tableId
StoredTableId == <<"s", "y", "n", "2">>

\* tables[0] is no string and no DataFrame: IOError; otherwise the file loop
\* starts (dfs = [], first_table = True), or the tables go to pd.concat as given
CT_Call ==
    /\ SynapseCallable
    /\ \E kind \in TableKinds, list \in TableLists, transpose \in BOOLEAN,
          start \in StartRows, project \in ProjectIds :
          /\ cargs' = [kind |-> kind, tables |-> list,
                       transpose_tables |-> transpose, start_row |-> start,
                       synapse_project_id |-> project]
          /\ tables' = list
          /\ SynapseEnter("concatenate_tables_to_synapse_table", NoSynapseArgs,
                          CASE kind = "str" -> "ct_file"
                            [] kind = "DataFrame" -> "ct_concat"
                            [] OTHER -> "raised")
    /\ dfs' = <<>>
    /\ first_table' = TRUE
    /\ concatenated' = EmptyFrame
    /\ UNCHANGED << table_data, download_limit >>
    /\ UNCHANGED writeVars

\* one turn of the file loop: read, transpose, cut the rows before start_row
\* of every table but the first, dfs.append(df); after the last, tables = dfs
CT_ReadTable ==
    /\ spc = "ct_file"
    /\ ~(CutsRows /\ cargs.start_row > FrameShape0(LoopFrame))
    /\ dfs' = Append(dfs,
                     IF CutsRows
                     THEN SliceRows(LoopFrame, cargs.start_row,
                                    FrameShape0(LoopFrame) + 1)
                     ELSE LoopFrame)
    /\ first_table' = FALSE
    /\ IF Len(dfs') = Len(tables)
       THEN tables' = dfs' /\ spc' = "ct_concat"
       ELSE UNCHANGED << tables, spc >>
    /\ UNCHANGED << sfn, sargs, table_data, download_limit, icol, irow,
                    files_per_column, downloaded_files, downloads,
                    files_handles, uploads, stored, sret, cargs, concatenated >>
    /\ UNCHANGED writeVars
    /\ UNCHANGED extractVars

\* raise IOError("The start_row is bigger than the table!")
CT_StartRowTooBig ==
    /\ spc = "ct_file"
    /\ CutsRows /\ cargs.start_row > FrameShape0(LoopFrame)
    /\ spc' = "raised"
    /\ UNCHANGED << sfn, sargs, table_data, download_limit, icol, irow,
                    files_per_column, downloaded_files, downloads,
                    files_handles, uploads, stored, sret >>
    /\ UNCHANGED concatVars
    /\ UNCHANGED writeVars
    /\ UNCHANGED extractVars

\* table_data = pd.concat(tables)
CT_Concat ==
    /\ spc = "ct_concat"
    /\ concatenated' = pd_concat(tables)
    /\ spc' = "ct_store"
    /\ UNCHANGED << sfn, sargs, table_data, download_limit, icol, irow,
                    files_per_column, downloaded_files, downloads,
                    files_handles, uploads, stored, sret, cargs, dfs, tables,
                    first_table >>
    /\ UNCHANGED writeVars
    /\ UNCHANGED extractVars

\* schema = Schema(name=table_name, columns=as_table_columns(table_data),
\*                 parent=synapse_project_id);
\* table = syn.store(Table(schema, table_data))
CT_Store ==
    /\ spc = "ct_store"
    /\ stored' = [schema |-> [columns |-> concatenated.columns,
                              parent |-> cargs.synapse_project_id],
                  rows |-> concatenated]
    /\ spc' = "ct_return"
    /\ UNCHANGED << sfn, sargs, table_data, download_limit, icol, irow,
                    files_per_column, downloaded_files, downloads,
                    files_handles, uploads, sret >>
    /\ UNCHANGED concatVars
    /\ UNCHANGED writeVars
    /\ UNCHANGED extractVars

\* return table_data, table_name, synapse_table_id, synapse_project_id
CT_Return ==
    /\ spc = "ct_return"
    /\ sret' = [returned |-> TRUE,
                value |-> << concatenated, TableName, StoredTableId,
                             cargs.synapse_project_id >>]
    /\ spc' = "done"
    /\ UNCHANGED << sfn, sargs, table_data, download_limit, icol, irow,
                    files_per_column, downloaded_files, downloads,
                    files_handles, uploads, stored >>
    /\ UNCHANGED concatVars
    /\ UNCHANGED writeVars
    /\ UNCHANGED extractVars

(* ------------- copy_synapse_table, write_synapse_table ---------------- *)

\* index labels that are not 0 .. n-1: those of a table read from Synapse,
\* or of a DataFrame of the caller
RowLabels == << "r5", "r9", "r7", "r3", "r1" >>

\* a table under such an index
Relabel(df) ==
    Frame([i \in 1..Len(df.index) |-> RowLabels[i]], df.columns, df.values)

\* results.asDataFrame(): the table read from Synapse
QueryFrames == { Relabel(df) : df \in InputTables }

\* the table_data argument of write_synapse_table
WriteFrames == InputTables \cup QueryFrames

\* the synapse_table_id argument
TableIds == { <<"s", "y", "n", "0">> }

\* the remove_columns argument: no column, columns of the table or not
RemoveLists == { <<>>, <<"B">>, <<"E">>, <<"A", "B">> }

HasColumn(df, c) == \E j \in 1..Len(df.columns) : df.columns[j] = c

\* a sequence without its element at position j
DropAt(seq, j) == SubSeq(seq, 1, j - 1) \o SubSeq(seq, j + 1, Len(seq))

\* del table_data[remove_column], for a column the table has
DelColumn(df, c) ==
    LET j == CHOOSE k \in 1..Len(df.columns) : df.columns[k] = c
    IN  Frame(df.index, DropAt(df.columns, j),
              [i \in 1..Len(df.values) |-> DropAt(df.values[i], j)])

\* for remove_column in remove_columns: del table_data[remove_column], as
\* far as the loop gets: it stops at a column the table does not have
RECURSIVE DelColumns(_, _)
DelColumns(df, remove_columns) ==
    IF remove_columns = <<>> THEN df
    ELSE IF ~HasColumn(df, Head(remove_columns)) THEN df
    ELSE DelColumns(DelColumn(df, Head(remove_columns)), Tail(remove_columns))

\* the loop deletes every column of remove_columns: none raises KeyError
RECURSIVE DeletesAll(_, _)
DeletesAll(df, remove_columns) ==
    IF remove_columns = <<>> THEN TRUE
    ELSE /\ HasColumn(df, Head(remove_columns))
         /\ DeletesAll(DelColumn(df, Head(remove_columns)), Tail(remove_columns))

\* table_data.index = range(table_data.shape[0])
ResetIndex(df) == Frame(RangeIndex(FrameShape0(df)), df.columns, df.values)

\* Schema(name=table_name, columns=as_table_columns(table_data),
\*        parent=synapse_project_id, includeRowIdAndRowVersion=False)
WriteSchema(df, project) ==
    [name |-> TableName, columns |-> df.columns, parent |-> project,
     includeRowIdAndRowVersion |-> FALSE]

\* copy_synapse_table is called
CP_Call ==
    /\ SynapseCallable
    /\ \E id \in TableIds, project \in ProjectIds, remove \in RemoveLists :
          wargs' = [NoWriteArgs EXCEPT !.synapse_table_id = id,
                                       !.synapse_project_id = project,
                                       !.remove_columns = remove]
    /\ wtable_data' = EmptyFrame
    /\ SynapseEnter("copy_synapse_table", NoSynapseArgs, "cp_query")
    /\ UNCHANGED << table_data, download_limit >>
    /\ UNCHANGED concatVars

\* results = syn.tableQuery(...); table_data = results.asDataFrame()
CP_Query ==
    /\ spc = "cp_query"
    /\ \E df \in QueryFrames : wtable_data' = df
    /\ spc' = "cp_remove"
    /\ UNCHANGED << sfn, sargs, table_data, download_limit, icol, irow,
                    files_per_column, downloaded_files, downloads,
                    files_handles, uploads, stored, sret, wargs >>
    /\ UNCHANGED concatVars
    /\ UNCHANGED extractVars

\* if remove_columns: for remove_column in remove_columns: del ...
CP_RemoveColumns ==
    /\ spc = "cp_remove"
    /\ DeletesAll(wtable_data, wargs.remove_columns)
    /\ wtable_data' = DelColumns(wtable_data, wargs.remove_columns)
    /\ spc' = "cp_store"
    /\ UNCHANGED << sfn, sargs, table_data, download_limit, icol, irow,
                    files_per_column, downloaded_files, downloads,
                    files_handles, uploads, stored, sret, wargs >>
    /\ UNCHANGED concatVars
    /\ UNCHANGED extractVars

\* del table_data[remove_column] raises KeyError: the table has no such column
CP_RemoveKeyError ==
    /\ spc = "cp_remove"
    /\ ~DeletesAll(wtable_data, wargs.remove_columns)
    /\ wtable_data' = DelColumns(wtable_data, wargs.remove_columns)
    /\ spc' = "raised"
    /\ UNCHANGED << sfn, sargs, table_data, download_limit, icol, irow,
                    files_per_column, downloaded_files, downloads,
                    files_handles, uploads, stored, sret, wargs >>
    /\ UNCHANGED concatVars
    /\ UNCHANGED extractVars

\* table_data.index = range(table_data.shape[0]); schema = Schema(...);
\* table = syn.store(Table(schema, table_data))
CP_Store ==
    /\ spc = "cp_store"
    /\ wtable_data' = ResetIndex(wtable_data)
    /\ stored' = [schema |-> WriteSchema(wtable_data', wargs.synapse_project_id),
                  rows |-> wtable_data']
    /\ spc' = "cp_return"
    /\ UNCHANGED << sfn, sargs, table_data, download_limit, icol, irow,
                    files_per_column, downloaded_files, downloads,
                    files_handles, uploads, sret, wargs >>
    /\ UNCHANGED concatVars
    /\ UNCHANGED extractVars

\* return table_data, table_name, synapse_project_id
CP_Return ==
    /\ spc = "cp_return"
    /\ sret' = [returned |-> TRUE,
                value |-> << wtable_data, TableName, wargs.synapse_project_id >>]
    /\ spc' = "done"
    /\ UNCHANGED << sfn, sargs, table_data, download_limit, icol, irow,
                    files_per_column, downloaded_files, downloads,
                    files_handles, uploads, stored >>
    /\ UNCHANGED concatVars
    /\ UNCHANGED writeVars
    /\ UNCHANGED extractVars

\* write_synapse_table is called with a DataFrame of the caller
WT_Call ==
    /\ SynapseCallable
    /\ \E df \in WriteFrames, project \in ProjectIds :
          /\ wargs' = [NoWriteArgs EXCEPT !.table_data = df,
                                          !.synapse_project_id = project]
          /\ wtable_data' = df
    /\ SynapseEnter("write_synapse_table", NoSynapseArgs, "wt_store")
    /\ UNCHANGED << table_data, download_limit >>
    /\ UNCHANGED concatVars

\* table_data.index = range(table_data.shape[0]), which the caller sees;
\* schema = Schema(...); syn.store(Table(schema, table_data))
WT_Store ==
    /\ spc = "wt_store"
    /\ wtable_data' = ResetIndex(wtable_data)
    /\ stored' = [schema |-> WriteSchema(wtable_data', wargs.synapse_project_id),
                  rows |-> wtable_data']
    /\ spc' = "wt_return"
    /\ UNCHANGED << sfn, sargs, table_data, download_limit, icol, irow,
                    files_per_column, downloaded_files, downloads,
                    files_handles, uploads, sret, wargs >>
    /\ UNCHANGED concatVars
    /\ UNCHANGED extractVars

\* the function ends without a return statement: it returns None
WT_Return ==
    /\ spc = "wt_return"
    /\ sret' = [returned |-> TRUE, value |-> None]
    /\ spc' = "done"
    /\ UNCHANGED << sfn, sargs, table_data, download_limit, icol, irow,
                    files_per_column, downloaded_files, downloads,
                    files_handles, uploads, stored >>
    /\ UNCHANGED concatVars
    /\ UNCHANGED writeVars
    /\ UNCHANGED extractVars

(* -------------------------- the specification ------------------------- *)

Next ==
    \/ OS_Call \/ OS_RunCommand \/ OS_ReadCsv \/ OS_ReadCsvIOError
    \/ OS_ReadCsvRaises \/ OS_Construct \/ OS_Write \/ OS_WriteIOError
    \/ OS_Return
    \/ PG_Call \/ PG_Extract \/ PG_ExtractRaises \/ PG_RowData \/ PG_Construct
    \/ PG_Write \/ PG_WriteIOError \/ PG_Return
    \/ EX_Call \/ EX_GetConvertAudio \/ EX_RunCommand \/ EX_ArffToCsv
    \/ EX_Construct \/ EX_Write \/ EX_Raises \/ EX_Return

Spec == Init /\ [][Next]_vars

SynapseNext ==
    \/ RS_Call \/ RS_NextColumn \/ RS_ColumnsDone \/ RS_RowOutOfRange
    \/ RS_RowNoFile \/ RS_RowDownload \/ RS_RowsDone \/ RS_Return
    \/ FS_Call \/ FS_Upload \/ FS_StoreSchema \/ FS_StoreRows \/ FS_Return
    \/ CT_Call \/ CT_ReadTable \/ CT_StartRowTooBig \/ CT_Concat \/ CT_Store
    \/ CT_Return
    \/ CP_Call \/ CP_Query \/ CP_RemoveColumns \/ CP_RemoveKeyError \/ CP_Store
    \/ CP_Return
    \/ WT_Call \/ WT_Store \/ WT_Return

SpecSynapse == Init /\ [][SynapseNext]_vars

(* ------------------- claims about extract.py, extractors.py ----------- *)

\* the place of a step in a call's sequence
StepRank(s) ==
    CASE s = "fetch" -> 0
      [] s = "extract" -> 1
      [] s = "read" -> 2
      [] s = "construct" -> 3
      [] s = "write" -> 4

InRunFunction == fn \in {"run_openSMILE", "run_pyGait"}

\* what is on disk at a path: the rows of the file, or nothing
FileAt(d, path) == IF path \in DOMAIN d THEN d[path] ELSE <<>>

\* the files other than path are as they were when the call started
OthersUntouched(path) ==
    /\ DOMAIN disk \ {path} = DOMAIN disk0 \ {path}
    /\ \A q \in DOMAIN disk \ {path} : disk[q] = disk0[q]

\* the per-row file the documentation names: table_stem, "_", the base name
\* of the input file, ".csv"
RowFileOf(a) == a.table_stem \o <<"_">> \o basename(a.file) \o CSV

\* C1: in run_openSMILE, run_pyGait and extractors.openSMILE the steps of a
\* call form one linear sequence, each entered at most once: the extraction
\* precedes the read of its output, the feature row is constructed only
\* once the output has been read, the table is written only once the row
\* has been constructed, and no step is entered again after a failure.
C1_LinearSequence ==
    /\ \A i, j \in 1..Len(steps) :
           i < j => StepRank(steps[i]) < StepRank(steps[j])
    /\ \A i \in 1..Len(steps) :
           steps[i] \in {"read", "construct", "write"} =>
               i > 1 /\ StepRank(steps[i - 1]) = StepRank(steps[i]) - 1
    /\ feature_row # NoneRow => row_data # NoneRow
    /\ disk # disk0 => feature_row # NoneRow
    /\ failure # "none" => pc \notin {"os_run", "os_read", "os_construct", "os_write",
                                      "pg_extract", "pg_rowdata", "pg_construct",
                                      "pg_write", "ex_fetch", "ex_run", "ex_read",
                                      "ex_construct", "ex_write"}

\* a run_openSMILE call went through all four steps, the last of which failed
C1_Witness ==
    /\ fn = "run_openSMILE" /\ pc = "done"
    /\ steps = <<"extract", "read", "construct", "write">>
    /\ failure = "write_ioerror"

\* C2: run_openSMILE returns (None, None) and writes no table file when the
\* feature row cannot be produced: if audio_file is no file the command is
\* not run; if reading the output fails with an I/O error, the error is
\* printed and neither table is written.
C2_NullResult ==
    (fn = "run_openSMILE" /\ pc = "done") =>
        /\ ~args.isfile =>
               /\ steps = <<>>
               /\ ret = Returned(NoneRow, None)
               /\ disk = disk0
        /\ failure = "read_ioerror" =>
               /\ printed = 1
               /\ steps = <<"extract", "read">>
               /\ ret = Returned(NoneRow, None)
               /\ disk = disk0

\* a second call failed to read its output, with a table already on disk
C2_Witness ==
    /\ fn = "run_openSMILE" /\ pc = "done"
    /\ failure = "read_ioerror"
    /\ extracted # NoneRow
    /\ DOMAIN disk # {}

\* C3: save_rows alone selects the destination: true writes the per-row
\* file table_stem_<base name>.csv and leaves the shared table alone, false
\* appends to table_stem.csv and writes no per-row file; exactly one file
\* is written per successful call and feature_table is its path.
C3_SaveRowsSelects ==
    (InRunFunction /\ pc = "done" /\ ret.feature_table # None) =>
        LET rowfile == RowFileOf(args)
            shared  == args.table_stem \o CSV
        IN  /\ rowfile # shared
            /\ args.save_rows =>
                   /\ ret.feature_table = rowfile
                   /\ disk[rowfile] = << ret.feature_row >>
                   /\ OthersUntouched(rowfile)
            /\ ~args.save_rows =>
                   /\ ret.feature_table = shared
                   /\ disk[shared] =
                          Append(FileAt(disk0, shared), ret.feature_row)
                   /\ OthersUntouched(shared)

\* a per-row write by run_openSMILE next to an existing shared table
C3_Witness ==
    /\ fn = "run_openSMILE" /\ pc = "done"
    /\ args.save_rows
    /\ ret.feature_table = RowFileOf(args)
    /\ SharedTable(args.table_stem) \in DOMAIN disk0

\* C4: with save_rows true, two calls with the same table_stem for different
\* input files (different full paths) never write the same table file.
C4_OneFilePerRow ==
    \A i, j \in 1..Len(written) :
        ( /\ written[i].fn \in {"run_openSMILE", "run_pyGait"}
          /\ written[j].fn \in {"run_openSMILE", "run_pyGait"}
          /\ written[i].save_rows /\ written[j].save_rows
          /\ written[i].table_stem = written[j].table_stem
          /\ written[i].file # written[j].file )
        => written[i].table # written[j].table

\* C5: the input row is prepended, unaltered: for a non-empty Series row,
\* feature_row is the fields of row, in order and with their values, followed
\* by the extracted fields; otherwise feature_row is the extracted data; the
\* caller's row is not modified by the call.
C5_RowPrepended ==
    /\ [](  (InRunFunction /\ feature_row # NoneRow) =>
              LET n == Len(args.row.fields)
              IN  IF args.row.kind = "Series" /\ n > 0
                  THEN /\ Len(feature_row.fields) = n + Len(row_data.fields)
                       /\ SubSeq(feature_row.fields, 1, n) = args.row.fields
                       /\ SubSeq(feature_row.fields, n + 1,
                                 Len(feature_row.fields)) = row_data.fields
                  ELSE feature_row = row_data )
    /\ [][ (InRunFunction /\ ncalls' = ncalls) => args'.row = args.row ]_vars
    /\ [][ (InRunFunction /\ pc' = "done") => ret'.feature_row = feature_row ]_vars

\* run_pyGait returned a row of the two input fields and the 14 gait fields
C5_Witness ==
    /\ fn = "run_pyGait" /\ pc = "done"
    /\ IsNonEmptySeries(args.row)
    /\ Len(ret.feature_row.fields) = Len(args.row.fields) + Len(GaitColumns)

\* the one destination a call of a run function writes to
TriedDestination ==
    IF args.save_rows THEN RowFileOf(args) ELSE args.table_stem \o CSV

\* C6: when the write of the feature row fails with an I/O error, in either
\* branch, the error is printed, the call returns normally with feature_table
\* None and the constructed feature row; the write is not tried again and the
\* other destination is not tried: no file but the one of the failed write
\* changes.
C6_WriteFailure ==
    (InRunFunction /\ failure = "write_ioerror") =>
        /\ pc \in {"os_return", "pg_return", "done"}
        /\ printed = 1
        /\ steps = <<"extract", "read", "construct", "write">>
        /\ feature_table = None
        /\ feature_row # NoneRow
        /\ feature_row = ConstructFeatureRow(args.row, row_data)
        /\ OthersUntouched(TriedDestination)
        /\ pc = "done" => ret = Returned(feature_row, None)

\* run_pyGait returned after its shared-table write failed
C6_Witness ==
    /\ fn = "run_pyGait" /\ pc = "done"
    /\ ~args.save_rows
    /\ failure = "write_ioerror"
    /\ ret.feature_row # NoneRow /\ ret.feature_table = None

\* the successful writes of the run functions to a table, as positions of written
WritesTo(table, save_rows) ==
    { i \in 1..Len(written) :
        /\ written[i].fn \in {"run_openSMILE", "run_pyGait"}
        /\ written[i].save_rows = save_rows
        /\ written[i].table = table }

\* a step of a run function that is a successful write
SuccessfulWrite == InRunFunction /\ Len(written') = Len(written) + 1

\* C7: with save_rows false every successful call appends one row to
\* table_stem.csv, whatever the table holds and also when the input file is
\* the same, so that the table holds a row for each of the n successful
\* calls; with save_rows true a successful call leaves the per-row file of
\* its input holding its row alone, and a repeated call leaves one per-row
\* file for the input.
C7_NotIdempotent ==
    /\ [][ SuccessfulWrite =>
              LET w == written'[Len(written')]
              IN  IF w.save_rows
                  THEN /\ w.table = RowFileOf(w)
                       /\ disk' = (w.table :> << feature_row >>) @@ disk
                  ELSE /\ w.table = SharedTable(w.table_stem)
                       /\ disk' = (w.table :>
                                      Append(FileAt(disk, w.table), feature_row))
                                  @@ disk ]_vars
    /\ [](\A t \in TableStems :
             Len(FileAt(disk, SharedTable(t))) >=
                 Cardinality(WritesTo(SharedTable(t), FALSE)))
    /\ [](\A i \in 1..Len(written) :
             (written[i].save_rows
                 /\ written[i].fn \in {"run_openSMILE", "run_pyGait"})
             => /\ written[i].table = RowFileOf(written[i])
                /\ written[i].table \in DOMAIN disk
                /\ Len(disk[written[i].table]) <= 1)

\* two successful shared-table calls for the same input file left two rows
C7_Witness ==
    /\ pc = "done"
    /\ Len(written) = 2
    /\ ~written[1].save_rows /\ ~written[2].save_rows
    /\ written[1].fn = "run_openSMILE" /\ written[2].fn = "run_openSMILE"
    /\ written[1].file = written[2].file
    /\ Len(FileAt(disk, SharedTable(written[1].table_stem))) = 2

(* ----------------------- claims about synapse_io.py ------------------- *)

Min(a, b) == IF a <= b THEN a ELSE b

InReadFiles == sfn = "read_synapse_table_files"

\* the downloads made for a row of a column, as positions of downloads
DownloadsOf(c, rowId) ==
    { k \in 1..Len(downloads) :
        downloads[k].column = c /\ downloads[k].rowId = rowId }

\* C8: read_synapse_table_files downloads files only if column_names is
\* given and limits downloads to download_limit rows: with empty
\* column_names nothing is downloaded; otherwise, for every table and every
\* limit (None, or an integer that may exceed the table's rows), the call
\* completes with one list per column, each with one entry per visited row,
\* at most download_limit rows and no row beyond the table's end; the full
\* table is returned.
C8_LimitedDownloads ==
    (InReadFiles /\ spc \in {"done", "raised"}) =>
        /\ spc = "done"
        /\ sret.value[1] = table_data
        /\ sret.value[2] = downloaded_files
        /\ \A k \in 1..Len(downloads) : downloads[k].rowId < Shape0(table_data)
        /\ IF sargs.column_names = <<>>
           THEN downloads = <<>> /\ downloaded_files = <<>>
           ELSE /\ Len(downloaded_files) = Len(sargs.column_names)
                /\ \A k \in 1..Len(downloaded_files) :
                       Len(downloaded_files[k]) =
                           IF sargs.download_limit.isint
                           THEN Min(sargs.download_limit.n, Shape0(table_data))
                           ELSE Shape0(table_data)

\* the entries of a column's list are those of the table's rows, in place
EntriesInPlace(c, list) ==
    \A i \in 1..Len(list) :
        /\ i <= Shape0(table_data)
        /\ IF table_data[i][c] = "nan"
           THEN list[i] = None /\ DownloadsOf(c, i - 1) = {}
           ELSE /\ Cardinality(DownloadsOf(c, i - 1)) = 1
                /\ \A k \in DownloadsOf(c, i - 1) :
                       list[i] = IF downloads[k].found THEN downloads[k].path
                                                       ELSE <<>>

\* C9: entry i of a column's list describes the file of the table's i-th
\* row in that column: None, with no download attempted, for a row without
\* a file; the downloaded path if the download returned file information;
\* the empty string if it returned nothing.  Later entries never shift.
C9_EntriesInPlace ==
    InReadFiles =>
        /\ \A k \in 1..Len(downloaded_files) :
               EntriesInPlace(sargs.column_names[k], downloaded_files[k])
        /\ spc = "rs_row" =>
               /\ Len(files_per_column) = irow
               /\ EntriesInPlace(column_name, files_per_column)

\* a path follows a None in one column, an entry follows an empty string
\* in the other
C9_Witness ==
    /\ InReadFiles /\ spc = "done"
    /\ Len(downloaded_files) = 2
    /\ Len(downloaded_files[1]) = 2 /\ Len(downloaded_files[2]) = 2
    /\ downloaded_files[1][1] = None
    /\ downloaded_files[1][2] = DownloadPath(sargs.column_names[1], 1)
    /\ downloaded_files[2][1] = <<>>

\* C10: files_to_synapse_table uploads every file of in_files once, in
\* order, stores a table with the single FILEHANDLEID column column_name and
\* one row per file holding its handle id, and returns the project ID.
C10_UploadsAndReturns ==
    (sfn = "files_to_synapse_table" /\ spc = "done") =>
        /\ [i \in 1..Len(uploads) |-> uploads[i].file] = sargs.in_files
        /\ stored.schema.columns =
               << [name |-> sargs.column_name, columnType |-> "FILEHANDLEID"] >>
        /\ stored.rows = [i \in 1..Len(uploads) |-> << uploads[i].id >>]
        /\ sret.returned
        /\ sret.value = sargs.synapse_project_id

(* ------------ claims about concatenate_tables_to_synapse_table -------- *)

InConcatenate == sfn = "concatenate_tables_to_synapse_table"

\* the tables are as pd.concat gets them
TablesPrepared == spc \in {"ct_concat", "ct_store", "ct_return", "done"}

\* table i is the transpose of input i, but for rows cut from it: its
\* columns are the input's index, its index labels are columns of the input,
\* and its values are the input's, turned
IsTransposeOf(t, input) ==
    /\ t.columns = input.index
    /\ \A r \in 1..Len(t.index) :
           \E j \in 1..Len(input.columns) :
               /\ t.index[r] = input.columns[j]
               /\ t.values[r] = [c \in 1..Len(input.index) |-> input.values[c][j]]

\* C11: concatenate_tables_to_synapse_table transposes the tables before
\* concatenating whenever transpose_tables is true, for lists of file paths
\* and for lists of DataFrames.
C11_TransposesBoth ==
    (InConcatenate /\ TablesPrepared /\ cargs.transpose_tables) =>
        \A i \in 1..Len(tables) : IsTransposeOf(tables[i], cargs.tables[i])

\* the sum of a sequence of numbers
RECURSIVE SumOf(_)
SumOf(ns) == IF ns = <<>> THEN 0 ELSE Head(ns) + SumOf(Tail(ns))

\* no column label is in two of the frames of a list
DisjointColumns(frames) ==
    \A i, j \in 1..Len(frames) :
        i # j => \A a \in 1..Len(frames[i].columns), b \in 1..Len(frames[j].columns) :
                     frames[i].columns[a] # frames[j].columns[b]

\* the table of the call has been concatenated
Concatenated == spc \in {"ct_store", "ct_return", "done"}

\* C12: the tables are concatenated by increasing the number of columns:
\* for tables with disjoint column names the stored and returned table_data
\* has as many columns as the tables have together and no more rows than
\* the largest of them.
C12_ColumnsIncrease ==
    (InConcatenate /\ Concatenated /\ DisjointColumns(tables)) =>
        /\ Len(concatenated.columns) =
               SumOf([i \in 1..Len(tables) |-> Len(tables[i].columns)])
        /\ \E i \in 1..Len(tables) :
               Len(concatenated.index) <= Len(tables[i].index)
        /\ spc = "done" =>
               /\ stored.rows = concatenated
               /\ sret.value[1] = concatenated

\* input table i as the call holds it before any row is cut: read from its
\* file and transposed where the call transposes (C11 is about which inputs
\* that is; here the rows are those of the table as it stands before the cut)
Uncut(i) ==
    IF cargs.kind = "str"
    THEN IF cargs.transpose_tables
         THEN Transpose(read_table(cargs.tables[i]))
         ELSE read_table(cargs.tables[i])
    ELSE cargs.tables[i]

\* the rows of df from position k (counted from 0) to its end
RowsFrom(df, k) ==
    [index   |-> [r \in 1..(Len(df.index) - k) |-> df.index[r + k]],
     columns |-> df.columns,
     values  |-> [r \in 1..(Len(df.values) - k) |-> df.values[r + k]]]

\* start_row is bigger than one of the tables after the first
StartRowTooBig ==
    \E i \in 2..Len(cargs.tables) : cargs.start_row > FrameShape0(Uncut(i))

\* C13: start_row is the starting row for each table before concatenating,
\* with all rows used for the first table: the first table contributes all
\* of its rows and every later table exactly its rows from start_row to its
\* end; if start_row is bigger than a later table the call raises an IOError
\* and stores no table. This holds for file paths and for DataFrames.
C13_StartRow ==
    (InConcatenate /\ cargs.kind \in {"str", "DataFrame"}) =>
        /\ (TablesPrepared /\ ~StartRowTooBig) =>
               /\ Len(tables) = Len(cargs.tables)
               /\ tables[1] = Uncut(1)
               /\ \A i \in 2..Len(tables) :
                      tables[i] = RowsFrom(Uncut(i), cargs.start_row)
        /\ StartRowTooBig =>
               /\ ~TablesPrepared
               /\ stored = NotStored
               /\ ~sret.returned

====
